---- MODULE Spec2Model ----
(***************************************************************************)
(* Model of ghost-dependencies-cli (src/index.ts): the syntax-tree walker  *)
(* listImports/walkNode, the directory scanner scanProjectForDeps/scanDir  *)
(* and the orchestration in main (mark used, --clean uninstall).           *)
(*                                                                         *)
(* JavaScript strings that the code inspects character by character        *)
(* (split("/"), endsWith) are sequences of one-character strings.          *)
(***************************************************************************)
EXTENDS Integers, Sequences, FiniteSets, TLC

(* ------------------------------------------------------------------ *)
(* Bounds                                                              *)
(* ------------------------------------------------------------------ *)
\* nesting depth of call expressions in the generated syntax trees
MaxDepth == 2
\* number of top-level statements in a generated program
MaxStmts == 2
\* number of directory entries below src/ when the scanner runs alone
MaxEntries == 3
\* number of directory entries below src/ when main runs
MaxMainEntries == 2

(* ------------------------------------------------------------------ *)
(* String literals used by the inputs                                  *)
(* ------------------------------------------------------------------ *)
sEmpty == << >>
sReact == <<"r","e","a","c","t">>
sLodashFp == <<"l","o","d","a","s","h","/","f","p">>
sLodash == <<"l","o","d","a","s","h">>
sScopedPath == <<"@","s","c","o","p","e","/","p","k","g","/","s","u","b">>
sScopedPkg == <<"@","s","c","o","p","e","/","p","k","g">>
sLocalUtil == <<".","/","u","t","i","l">>
sUp == <<".",".","/","u","p">>
sAbs == <<"/","a","b","s">>

(* ------------------------------------------------------------------ *)
(* Syntax tree nodes (ESTree as produced by typescript-estree parse).  *)
(* A node has the discriminant `type` and child fields.  The fields    *)
(* the walker names are kept (source, callee, arguments); every other  *)
(* node-valued field (body, expression, object, property, quasis ...)  *)
(* is gathered in `others`.  A single-object field is a sequence of    *)
(* length 0 (absent) or 1.                                             *)
(* ------------------------------------------------------------------ *)
StrVal(s) == [t |-> "string", s |-> s]
NumVal == [t |-> "number", s |-> << >>]
NoVal == [t |-> "undefined", s |-> << >>]

Node(type, name, value, source, callee, arguments, others) ==
    [type |-> type, name |-> name, value |-> value, source |-> source,
     callee |-> callee, arguments |-> arguments, others |-> others]

StrLit(s) == Node("Literal", "", StrVal(s), << >>, << >>, << >>, << >>)
NumLit == Node("Literal", "", NumVal, << >>, << >>, << >>, << >>)
Ident(n) == Node("Identifier", n, NoVal, << >>, << >>, << >>, << >>)
TemplateLit ==
    Node("TemplateLiteral", "", NoVal, << >>, << >>, << >>,
         <<Node("TemplateElement", "", NoVal, << >>, << >>, << >>, << >>)>>)
Member(obj, prop) ==
    Node("MemberExpression", "", NoVal, << >>, << >>, << >>, <<obj, Ident(prop)>>)
Call(callee, args) ==
    Node("CallExpression", "", NoVal, << >>, <<callee>>, args, << >>)
ImportDecl(s) ==
    Node("ImportDeclaration", "", NoVal, <<StrLit(s)>>, << >>, << >>, << >>)
ExprStmt(e) ==
    Node("ExpressionStatement", "", NoVal, << >>, << >>, << >>, <<e>>)
Program(body) == Node("Program", "", NoVal, << >>, << >>, << >>, body)

(* ------------------------------------------------------------------ *)
(* listImports / walkNode  (src/index.ts 25-73)                        *)
(* ------------------------------------------------------------------ *)
\* JavaScript truthiness of a literal value: `if (node.source?.value)`
Truthy(v) == v.t = "string" /\ v.s # << >>

\* the ImportDeclaration case of the switch (lines 39-43)
ImportCase(node) ==
    IF node.source # << >> /\ Truthy(node.source[1].value)
    THEN {node.source[1].value.s}
    ELSE {}

\* the CallExpression case of the switch (lines 45-55)
RequireCase(node) ==
    IF /\ node.callee # << >>
       /\ node.callee[1].type = "Identifier"
       /\ node.callee[1].name = "require"
    THEN IF /\ node.arguments # << >>
            /\ node.arguments[1].type = "Literal"
            /\ node.arguments[1].value.t = "string"
         THEN {node.arguments[1].value.s}
         ELSE {}
    ELSE {}

\* the switch on node.type (lines 38-56)
Dispatch(node) ==
    CASE node.type = "ImportDeclaration" -> ImportCase(node)
      [] node.type = "CallExpression" -> RequireCase(node)
      [] OTHER -> {}

\* the children reached by `for (const key in node)` (lines 58-68)
ChildNodes(node) ==
    node.source \o node.callee \o node.arguments \o node.others

\* variant: a matched node is not searched further
RECURSIVE walkNodeStopAtMatch(_)
walkNodeStopAtMatch(node) ==
    IF Dispatch(node) # {} THEN Dispatch(node)
    ELSE UNION {walkNodeStopAtMatch(ChildNodes(node)[i]) :
                    i \in DOMAIN ChildNodes(node)}

RECURSIVE walkNode(_)
walkNode(node) ==
    Dispatch(node) \cup
    UNION {walkNode(ChildNodes(node)[i]) : i \in DOMAIN ChildNodes(node)}


\* listImports (lines 25-73): parse, walk the whole tree, return the set.
\* `code` is a parsed file: ok = FALSE when parse() throws.
listImports(code) == walkNode(code.ast)

(* ------------------------------------------------------------------ *)
(* Inputs of the extractor: generated syntax trees                     *)
(* ------------------------------------------------------------------ *)
Leaves ==
    {StrLit(sEmpty), StrLit(sReact), Ident("someVariable"), TemplateLit, NumLit}

Callees ==
    {Ident("require"), Ident("load"), Member(Ident("module"), "require")}

\* argument lists over a set of expressions: none, one, a non-literal
\* followed by a literal, a literal followed by a nested call
ArgLists(E) ==
    {<< >>} \cup {<<e>> : e \in E}
            \cup {<<Ident("someVariable"), StrLit(sLodashFp)>>}
            \cup {<<StrLit(sReact), e>> : e \in {x \in E : x.type = "CallExpression"}}

RECURSIVE Exprs(_)
Exprs(d) ==
    IF d = 0 THEN Leaves
    ELSE Exprs(d - 1) \cup
         {Call(c, a) : c \in Callees, a \in ArgLists(Exprs(d - 1))}

Stmts ==
    {ImportDecl(s) : s \in {sEmpty, sReact, sScopedPath}} \cup
    {ExprStmt(e) : e \in {x \in Exprs(MaxDepth) : x.type = "CallExpression"}}

\* statements that precede the last one
Preludes ==
    {ImportDecl(sReact), ImportDecl(sEmpty),
     ExprStmt(Call(Ident("require"), <<StrLit(sLodashFp)>>)),
     ExprStmt(Call(Ident("require"), <<Ident("someVariable")>>))}

RECURSIVE Bodies(_)
Bodies(n) ==
    IF n = 0 THEN {<< >>}
    ELSE IF n = 1 THEN {<< >>} \cup {<<s>> : s \in Stmts}
    ELSE Bodies(n - 1) \cup
         {<<p>> \o b : p \in Preludes, b \in Bodies(n - 1) \ {<< >>}}

Parsed(ast) == [ok |-> TRUE, ast |-> ast]
ParseFailure == [ok |-> FALSE, ast |-> Program(<< >>)]

Sources == {Parsed(Program(b)) : b \in Bodies(MaxStmts)} \cup {ParseFailure}

(* ------------------------------------------------------------------ *)
(* String functions of the scanner                                     *)
(* ------------------------------------------------------------------ *)
\* position of the first "/" in s, 0 when there is none
FirstSlash(s) ==
    IF \E i \in DOMAIN s : s[i] = "/"
    THEN CHOOSE i \in DOMAIN s : s[i] = "/" /\ \A j \in 1..(i - 1) : s[j] # "/"
    ELSE 0

\* String.prototype.split("/")
RECURSIVE split(_)
split(s) ==
    IF FirstSlash(s) = 0 THEN <<s>>
    ELSE <<SubSeq(s, 1, FirstSlash(s) - 1)>> \o
         split(SubSeq(s, FirstSlash(s) + 1, Len(s)))

\* dep.split("/")[0]   (line 87)
PackageOf(dep) == split(dep)[1]

\* String.prototype.endsWith
endsWith(name, suffix) ==
    /\ Len(name) >= Len(suffix)
    /\ SubSeq(name, Len(name) - Len(suffix) + 1, Len(name)) = suffix

nNodeModules == <<"n","o","d","e","_","m","o","d","u","l","e","s">>
nDist == <<"d","i","s","t">>
nLib == <<"l","i","b">>
nDistOld == <<"d","i","s","t","-","o","l","d">>
xTs == <<".","t","s">>
xJs == <<".","j","s">>
xTsx == <<".","t","s","x">>
xJson == <<".","j","s","o","n">>

\* variant: the build-output directory is not excluded
ExcludedOnlyNodeModules(name) == name = nNodeModules

\* ["node_modules", "dist"].includes(entry.name)   (line 82)
Excluded(name) == name \in {nNodeModules, nDist}

\* variant: the extension may occur anywhere in the name
EligibleContains(name) ==
    \E i \in 1..Len(name), j \in 1..Len(name) :
        SubSeq(name, i, j) \in {xTs, xJs}

\* entry.name.endsWith(".ts") || entry.name.endsWith(".js")   (line 85)
Eligible(name) == endsWith(name, xTs) \/ endsWith(name, xJs)

(* ------------------------------------------------------------------ *)
(* The file system below <cwd>/src.  Entry 0 is src itself; entry i    *)
(* has a parent directory, a name and, for a file, its parsed text.    *)
(* ------------------------------------------------------------------ *)
Digit == <<"1","2","3","4","5","6","7","8","9">>

DirT(name, readable) ==
    [isDir |-> TRUE, base |-> name, readable |-> readable, code |-> ParseFailure]
FileT(ext, readable, code) ==
    [isDir |-> FALSE, base |-> ext, readable |-> readable, code |-> code]

\* import x from "lodash/fp"; const y = require("@scope/pkg/sub")
codeA ==
    Parsed(Program(<<ImportDecl(sLodashFp),
                     ExprStmt(Call(Ident("require"), <<StrLit(sScopedPath)>>))>>))
\* import "./util"; require("../up"); require("/abs")
codeB ==
    Parsed(Program(<<ImportDecl(sLocalUtil),
                     ExprStmt(Call(Ident("require"), <<StrLit(sUp)>>)),
                     ExprStmt(Call(Ident("require"), <<StrLit(sAbs)>>))>>))
\* import React from "react"
codeC == Parsed(Program(<<ImportDecl(sReact)>>))

ScanTemplates ==
    {DirT(nNodeModules, TRUE), DirT(nDist, TRUE), DirT(nDistOld, TRUE),
     DirT(nLib, FALSE),
     FileT(xTs, TRUE, codeA), FileT(xTs, TRUE, ParseFailure),
     FileT(xJs, TRUE, codeB), FileT(xJs, FALSE, codeC),
     FileT(xTsx, TRUE, codeC)}

MainTemplates ==
    {DirT(nDist, TRUE), DirT(nLib, TRUE), DirT(nLib, FALSE),
     FileT(xTs, TRUE, codeA), FileT(xTs, TRUE, ParseFailure),
     FileT(xJs, TRUE, codeC), FileT(xJs, FALSE, codeC),
     FileT(xJson, TRUE, codeC)}

MkEntry(i, parent, tm) ==
    [parent |-> parent,
     isDir |-> tm.isDir,
     name |-> IF tm.isDir THEN tm.base ELSE <<"f", Digit[i]>> \o tm.base,
     readable |-> tm.readable,
     code |-> tm.code]

\* a tree is well formed when every parent is a directory created before
\* its children and no two entries of one directory share a name
WellFormed(t) ==
    /\ \A i \in DOMAIN t : t[i].parent = 0 \/ t[t[i].parent].isDir
    /\ \A i, j \in DOMAIN t :
         (i # j /\ t[i].parent = t[j].parent) => t[i].name # t[j].name

\* entries are numbered breadth first
Parents(n) ==
    {p \in [1..n -> 0..n] :
        /\ \A i \in 1..n : p[i] < i
        /\ \A i, j \in 1..n : i < j => p[i] <= p[j]}

Trees(n, T) ==
    {t \in {[i \in 1..n |-> MkEntry(i, p[i], tm[i])] :
                p \in Parents(n), tm \in [1..n -> T]} : WellFormed(t)}

Children(t, d) == {i \in DOMAIN t : t[i].parent = d}

\* the orders in which readdirSync may enumerate a set of entries
Perms(S) ==
    {q \in [1..Cardinality(S) -> S] :
        \A i, j \in 1..Cardinality(S) : i # j => q[i] # q[j]}

(* ------------------------------------------------------------------ *)
(* State                                                               *)
(* ------------------------------------------------------------------ *)
VARIABLES
    source,     \* extractor: the file given to listImports
    found,      \* extractor: the array listImports returned
    xpc,        \* extractor: "ready", "returned" or "threw"
    tree,       \* scanner: the entries below src/
    srcExists,  \* scanner: whether <cwd>/src exists
    stack,      \* scanner: the active scanDir calls, innermost last
    imports,    \* scanner: the Set built by scanProjectForDeps
    listed,     \* scanner: directories readdirSync has listed
    readLog,    \* scanner: files readFileSync has read, in order
    spc,        \* scanner: "idle", "scanning", "returned" or "threw"
    first,      \* scanner: how the previous scan ended and what it gave
                \* its caller
    argv,       \* main: the parsed options
    manifest,   \* main: package.json ([exists, dependencies])
    deps,       \* main: the DepInfo array
    usedDeps,   \* main: the set scanProjectForDeps returned, once it has
    pending,    \* main: unused dependencies still to uninstall
    uninstalled,\* main: packages `npm uninstall` was executed for
    mpc         \* main: position in main, "standalone" when main is not running

xvars == <<source, found, xpc>>
svars == <<tree, srcExists, stack, imports, listed, readLog, spc, first>>
mvars == <<argv, manifest, deps, usedDeps, pending, uninstalled, mpc>>
vars == <<source, found, xpc, tree, srcExists, stack, imports, listed,
          readLog, spc, first, argv, manifest, deps, usedDeps, pending,
          uninstalled, mpc>>

NoResult == [got |-> FALSE, set |-> {}]
NoFirst == [spc |-> "idle", set |-> {}]

ScannerIdle ==
    /\ tree = << >>
    /\ srcExists = FALSE
    /\ stack = << >>
    /\ imports = {}
    /\ listed = {}
    /\ readLog = << >>
    /\ spc = "idle"
    /\ first = NoFirst

MainIdle ==
    /\ argv = [clean |-> FALSE, analyze |-> FALSE, audit |-> FALSE]
    /\ manifest = [exists |-> FALSE, dependencies |-> << >>]
    /\ deps = << >>
    /\ usedDeps = NoResult
    /\ pending = << >>
    /\ uninstalled = << >>
    /\ mpc = "standalone"

ExtractorIdle ==
    /\ source = ParseFailure
    /\ found = {}
    /\ xpc = "idle"

(* ------------------------------------------------------------------ *)
(* Extractor as a state machine: one call of listImports               *)
(* ------------------------------------------------------------------ *)
InitWalk ==
    /\ source \in Sources
    /\ found = {}
    /\ xpc = "ready"
    /\ ScannerIdle
    /\ MainIdle

\* parse succeeded: walkNode(ast); return Array.from(imports)
ListImportsReturn ==
    /\ xpc = "ready"
    /\ source.ok
    /\ found' = listImports(source)
    /\ xpc' = "returned"
    /\ UNCHANGED <<source, svars, mvars>>

\* parse threw: nothing catches it inside listImports
ListImportsThrow ==
    /\ xpc = "ready"
    /\ ~source.ok
    /\ xpc' = "threw"
    /\ UNCHANGED <<source, found, svars, mvars>>

NextWalk == ListImportsReturn \/ ListImportsThrow

SpecWalk == InitWalk /\ [][NextWalk]_vars


(* ------------------------------------------------------------------ *)
(* scanProjectForDeps / scanDir  (src/index.ts 75-93)                  *)
(* One step per directory entry of the `for (const entry of entries)`  *)
(* loop; the recursion of scanDir is the stack of frames.              *)
(* ------------------------------------------------------------------ *)
Frame(d, todo) == [dir |-> d, todo |-> todo]
Top == stack[Len(stack)]
Cur == tree[Head(Top.todo)]
CurId == Head(Top.todo)
Scanning == spc = "scanning" /\ stack # << >> /\ Top.todo # << >>
Advance(st) == [st EXCEPT ![Len(st)].todo = Tail(@)]

\* variant: the exception is caught around the scan and main goes on
PropagateSwallow ==
    /\ spc' = "threw"
    /\ stack' = << >>
    /\ mpc' = IF mpc = "scan" THEN "mark" ELSE mpc

\* an exception leaves scanDir and scanProjectForDeps: nothing in them
\* catches, so every frame is unwound and, under main, main rejects
Propagate ==
    /\ spc' = "threw"
    /\ stack' = << >>
    /\ mpc' = IF mpc = "scan" THEN "rejected" ELSE mpc

\* variant: the set is replaced by the names of the file just read
AddImportsOverwrite(set, code) ==
    IF listImports(code) = {} THEN set
    ELSE {PackageOf(dep) : dep \in listImports(code)}

\* imports.add(dep.split("/")[0]) for every dep of listImports(code)
AddImports(set, code) == set \cup {PackageOf(dep) : dep \in listImports(code)}

\* scanProjectForDeps(): new Set, scanDir(<cwd>/src); readdirSync succeeds
ScanCall ==
    /\ spc = "idle"
    /\ mpc \in {"scan", "standalone"}
    /\ srcExists
    /\ \E q \in Perms(Children(tree, 0)) :
         stack' = <<Frame(0, q)>>
    /\ imports' = {}
    /\ listed' = listed \cup {0}
    /\ spc' = "scanning"
    /\ UNCHANGED <<tree, srcExists, readLog, first, usedDeps, mpc,
                   argv, manifest, deps, pending, uninstalled, xvars>>

\* scanProjectForDeps(): readdirSync(<cwd>/src) throws, src is missing
ScanCallThrow ==
    /\ spc = "idle"
    /\ mpc \in {"scan", "standalone"}
    /\ ~srcExists
    /\ imports' = {}
    /\ Propagate
    /\ UNCHANGED <<tree, srcExists, listed, readLog, first, usedDeps,
                   argv, manifest, deps, pending, uninstalled, xvars>>

\* entry.isDirectory() and the name is not excluded: scanDir(fullPath)
DescendDir ==
    /\ Scanning
    /\ Cur.isDir
    /\ ~Excluded(Cur.name)
    /\ Cur.readable
    /\ \E q \in Perms(Children(tree, CurId)) :
         stack' = Advance(stack) \o <<Frame(CurId, q)>>
    /\ listed' = listed \cup {CurId}
    /\ UNCHANGED <<tree, srcExists, imports, readLog, spc, first, usedDeps,
                   mpc, argv, manifest, deps, pending, uninstalled, xvars>>

\* scanDir(fullPath) on a directory readdirSync cannot list
DescendDirThrow ==
    /\ Scanning
    /\ Cur.isDir
    /\ ~Excluded(Cur.name)
    /\ ~Cur.readable
    /\ Propagate
    /\ UNCHANGED <<tree, srcExists, imports, listed, readLog, first,
                   usedDeps, argv, manifest, deps, pending, uninstalled, xvars>>

\* entry.isDirectory() and the name is node_modules or dist: nothing
SkipDir ==
    /\ Scanning
    /\ Cur.isDir
    /\ Excluded(Cur.name)
    /\ stack' = Advance(stack)
    /\ UNCHANGED <<tree, srcExists, imports, listed, readLog, spc, first,
                   usedDeps, mpc, argv, manifest, deps, pending, uninstalled,
                   xvars>>

\* a .ts/.js file: readFileSync, listImports, add every package name
ReadFile ==
    /\ Scanning
    /\ ~Cur.isDir
    /\ Eligible(Cur.name)
    /\ Cur.readable
    /\ Cur.code.ok
    /\ readLog' = Append(readLog, CurId)
    /\ imports' = AddImports(imports, Cur.code)
    /\ stack' = Advance(stack)
    /\ UNCHANGED <<tree, srcExists, listed, spc, first, usedDeps, mpc,
                   argv, manifest, deps, pending, uninstalled, xvars>>

\* variant: a file that fails to parse is skipped
ReadFileParseSkip ==
    /\ Scanning
    /\ ~Cur.isDir
    /\ Eligible(Cur.name)
    /\ Cur.readable
    /\ ~Cur.code.ok
    /\ readLog' = Append(readLog, CurId)
    /\ stack' = Advance(stack)
    /\ UNCHANGED <<tree, srcExists, imports, listed, spc, first, usedDeps, mpc,
                   argv, manifest, deps, pending, uninstalled, xvars>>

\* a .ts/.js file whose text parse() rejects: listImports throws
ReadFileParseThrow ==
    /\ Scanning
    /\ ~Cur.isDir
    /\ Eligible(Cur.name)
    /\ Cur.readable
    /\ ~Cur.code.ok
    /\ readLog' = Append(readLog, CurId)
    /\ Propagate
    /\ UNCHANGED <<tree, srcExists, imports, listed, first, usedDeps,
                   argv, manifest, deps, pending, uninstalled, xvars>>

\* a .ts/.js file readFileSync cannot read
ReadFileIOThrow ==
    /\ Scanning
    /\ ~Cur.isDir
    /\ Eligible(Cur.name)
    /\ ~Cur.readable
    /\ Propagate
    /\ UNCHANGED <<tree, srcExists, imports, listed, readLog, first,
                   usedDeps, argv, manifest, deps, pending, uninstalled, xvars>>

\* any other file: neither branch of the if applies
SkipFile ==
    /\ Scanning
    /\ ~Cur.isDir
    /\ ~Eligible(Cur.name)
    /\ stack' = Advance(stack)
    /\ UNCHANGED <<tree, srcExists, imports, listed, readLog, spc, first,
                   usedDeps, mpc, argv, manifest, deps, pending, uninstalled,
                   xvars>>

\* the for loop of a scanDir call is exhausted: return to the caller; the
\* outermost return hands `imports` to the caller of scanProjectForDeps
ReturnDir ==
    /\ spc = "scanning"
    /\ stack # << >>
    /\ Top.todo = << >>
    /\ stack' = SubSeq(stack, 1, Len(stack) - 1)
    /\ IF Len(stack) = 1
       THEN /\ spc' = "returned"
            /\ usedDeps' = [got |-> TRUE, set |-> imports]
            /\ mpc' = IF mpc = "scan" THEN "mark" ELSE mpc
       ELSE UNCHANGED <<spc, usedDeps, mpc>>
    /\ UNCHANGED <<tree, srcExists, imports, listed, readLog, first,
                   argv, manifest, deps, pending, uninstalled, xvars>>

\* the caller keeps the outcome of the scan and calls scanProjectForDeps
\* a second time over the same tree
Rescan ==
    /\ mpc = "standalone"
    /\ spc \in {"returned", "threw"}
    /\ first.spc = "idle"
    /\ first' = [spc |-> spc, set |-> usedDeps.set]
    /\ spc' = "idle"
    /\ usedDeps' = NoResult
    /\ readLog' = << >>
    /\ listed' = {}
    /\ UNCHANGED <<tree, srcExists, stack, imports, mpc,
                   argv, manifest, deps, pending, uninstalled, xvars>>

ScanStep ==
    \/ ScanCall \/ ScanCallThrow
    \/ DescendDir \/ DescendDirThrow \/ SkipDir
    \/ ReadFile \/ ReadFileParseThrow \/ ReadFileIOThrow \/ SkipFile
    \/ ReturnDir

InitScan ==
    /\ \E n \in 0..MaxEntries : tree \in Trees(n, ScanTemplates)
    /\ srcExists \in (IF tree = << >> THEN BOOLEAN ELSE {TRUE})
    /\ stack = << >>
    /\ imports = {}
    /\ listed = {}
    /\ readLog = << >>
    /\ spc = "idle"
    /\ first = NoFirst
    /\ MainIdle
    /\ ExtractorIdle

NextScan == ScanStep \/ Rescan

SpecScan == InitScan /\ [][NextScan]_vars


(* ------------------------------------------------------------------ *)
(* main  (src/index.ts 142-208)                                        *)
(* ------------------------------------------------------------------ *)
\* the dependencies objects a package.json may hold, in key order
DependencyLists == {<< >>, <<sLodash>>, <<sScopedPkg>>, <<sLodash, sScopedPkg>>}

Manifests ==
    {[exists |-> FALSE, dependencies |-> << >>]} \cup
    {[exists |-> TRUE, dependencies |-> d] : d \in DependencyLists}

Range(f) == {f[i] : i \in DOMAIN f}

\* Object.entries(pkg.dependencies || {}).map(... used: false)  (163-169)
NewDeps(names) ==
    [i \in DOMAIN names |->
        [name |-> names[i], used |-> FALSE, size |-> "unset", vulnerable |-> "unset"]]

\* the body of `for (const dep of deps)` (174-183) for one dep: sizes is the
\* set of packages `npm pack` measured (estimatePackageSize returns 0 for
\* the others), auditMap the set of module names auditDependencies found
MarkDep(dep, used, sizes, auditMap) ==
    [name |-> dep.name,
     used |-> dep.name \in used,
     size |-> IF argv.analyze
              THEN (IF dep.name \in sizes THEN "positive" ELSE "zero")
              ELSE dep.size,
     vulnerable |-> IF argv.audit /\ dep.name \in auditMap
                    THEN "true" ELSE dep.vulnerable]

MarkDeps(ds, used, sizes, auditMap) ==
    [i \in DOMAIN ds |-> MarkDep(ds[i], used, sizes, auditMap)]

\* deps.filter((d) => !d.used), as the names in order  (line 186)
RECURSIVE Unused(_)
Unused(ds) ==
    IF ds = << >> THEN << >>
    ELSE (IF Head(ds).used THEN << >> ELSE <<Head(ds).name>>) \o Unused(Tail(ds))

\* getPackageJson() returns; deps is built; scanProjectForDeps is next
GetPackageJson ==
    /\ mpc = "start"
    /\ manifest.exists
    /\ deps' = NewDeps(manifest.dependencies)
    /\ mpc' = "scan"
    /\ UNCHANGED <<argv, manifest, usedDeps, pending, uninstalled, svars, xvars>>

\* getPackageJson() throws "No package.json found": main rejects
GetPackageJsonThrow ==
    /\ mpc = "start"
    /\ ~manifest.exists
    /\ mpc' = "rejected"
    /\ UNCHANGED <<argv, manifest, deps, usedDeps, pending, uninstalled,
                   svars, xvars>>

\* the external results main obtains after the scan: auditDependencies()
\* when --audit (line 172), estimatePackageSize per dep when --analyze
Externals(sizes, auditMap) ==
    /\ sizes \in (IF argv.analyze THEN SUBSET Range(manifest.dependencies) ELSE {{}})
    /\ auditMap \in (IF argv.audit THEN SUBSET Range(manifest.dependencies) ELSE {{}})

\* the for loop, then the else branch: console.table  (174-183, 196-207)
MainReport ==
    /\ mpc = "mark"
    /\ ~argv.clean
    /\ \E sizes, auditMap \in SUBSET Range(manifest.dependencies) :
         /\ Externals(sizes, auditMap)
         /\ deps' = MarkDeps(deps, usedDeps.set, sizes, auditMap)
    /\ mpc' = "done"
    /\ UNCHANGED <<argv, manifest, usedDeps, pending, uninstalled, svars, xvars>>

\* the for loop, then --clean with no unused dependency  (185-188)
MainCleanNothing ==
    /\ mpc = "mark"
    /\ argv.clean
    /\ \E sizes, auditMap \in SUBSET Range(manifest.dependencies) :
         /\ Externals(sizes, auditMap)
         /\ deps' = MarkDeps(deps, usedDeps.set, sizes, auditMap)
    /\ Unused(deps') = << >>
    /\ mpc' = "done"
    /\ UNCHANGED <<argv, manifest, usedDeps, pending, uninstalled, svars, xvars>>

\* the for loop, then --clean with unused dependencies  (185-191)
MainCleanStart ==
    /\ mpc = "mark"
    /\ argv.clean
    /\ \E sizes, auditMap \in SUBSET Range(manifest.dependencies) :
         /\ Externals(sizes, auditMap)
         /\ deps' = MarkDeps(deps, usedDeps.set, sizes, auditMap)
    /\ Unused(deps') # << >>
    /\ pending' = Unused(deps')
    /\ mpc' = "cleaning"
    /\ UNCHANGED <<argv, manifest, usedDeps, uninstalled, svars, xvars>>

\* one iteration of unused.forEach: execSync(`npm uninstall ${dep.name}`)
Uninstall ==
    /\ mpc = "cleaning"
    /\ pending # << >>
    /\ uninstalled' = Append(uninstalled, Head(pending))
    /\ pending' = Tail(pending)
    /\ mpc' = IF Tail(pending) = << >> THEN "done" ELSE "cleaning"
    /\ UNCHANGED <<argv, manifest, deps, usedDeps, svars, xvars>>

\* execSync runs the command and throws on a non-zero exit: main rejects
UninstallThrow ==
    /\ mpc = "cleaning"
    /\ pending # << >>
    /\ uninstalled' = Append(uninstalled, Head(pending))
    /\ mpc' = "rejected"
    /\ UNCHANGED <<argv, manifest, deps, usedDeps, pending, svars, xvars>>

Init ==
    /\ \E n \in 0..MaxMainEntries : tree \in Trees(n, MainTemplates)
    /\ srcExists \in (IF tree = << >> THEN BOOLEAN ELSE {TRUE})
    /\ stack = << >>
    /\ imports = {}
    /\ listed = {}
    /\ readLog = << >>
    /\ spc = "idle"
    /\ first = NoFirst
    /\ argv \in [clean : BOOLEAN, analyze : BOOLEAN, audit : BOOLEAN]
    /\ manifest \in Manifests
    /\ deps = << >>
    /\ usedDeps = NoResult
    /\ pending = << >>
    /\ uninstalled = << >>
    /\ mpc = "start"
    /\ ExtractorIdle

Next ==
    \/ GetPackageJson \/ GetPackageJsonThrow
    \/ ScanStep
    \/ MainReport \/ MainCleanNothing \/ MainCleanStart
    \/ Uninstall \/ UninstallThrow

Spec == Init /\ [][Next]_vars


(* ================================================================== *)
(* Properties                                                          *)
(* ================================================================== *)
sDot == <<".">>
sDotDot == <<".", ".">>

\* every node of a syntax tree, the root included
RECURSIVE AllNodes(_)
AllNodes(n) ==
    {n} \cup UNION {AllNodes(c) : c \in Range(n.source) \cup Range(n.callee)
                                       \cup Range(n.arguments) \cup Range(n.others)}

\* the package name the specification assigns to a specifier: the first
\* two segments for a scoped package, the first segment otherwise
SpecPackageName(s) ==
    LET segs == split(s)
    IN  IF segs[1] # << >> /\ segs[1][1] = "@" /\ Len(segs) >= 2
        THEN segs[1] \o <<"/">> \o segs[2]
        ELSE segs[1]

\* the name is node_modules or dist, exactly
IsExcludedName(name) == name = nNodeModules \/ name = nDist

\* the name is some stem followed by .ts or by .js
HasSourceExt(name) ==
    \E k \in 0..Len(name) :
        name = SubSeq(name, 1, k) \o xTs \/ name = SubSeq(name, 1, k) \o xJs

RECURSIVE AncestorsOf(_, _)
AncestorsOf(t, i) ==
    IF t[i].parent = 0 THEN {}
    ELSE {t[i].parent} \cup AncestorsOf(t, t[i].parent)

\* entry i lies below a directory named node_modules or dist
UnderExcluded(i) == \E a \in AncestorsOf(tree, i) : IsExcludedName(tree[a].name)

Files == {i \in DOMAIN tree : ~tree[i].isDir}
Dirs == {i \in DOMAIN tree : tree[i].isDir}

\* the files a complete scan has to read
ScannedFiles == {f \in Files : HasSourceExt(tree[f].name) /\ ~UnderExcluded(f)}

\* the raw specifiers of the files read so far
RawRead == UNION {listImports(tree[f].code) : f \in {g \in Range(readLog) : tree[g].code.ok}}

(* ------------------------------------------------------------------ *)
\* C1: every raw specifier S of a file the scan has read is inserted into
\* the used-package set as its package name: the first two segments of S
\* joined by "/" when the first begins with "@", else the first segment.
C1_ScopedNormalization ==
    spc \in {"scanning", "returned"} =>
        imports = {SpecPackageName(S) : S \in RawRead}

(* ------------------------------------------------------------------ *)
\* C2: a declared dependency D that a scanned file references by a static
\* import or a literal require is marked used by main and `npm uninstall D`
\* is never executed.
Referenced(D) == \E S \in RawRead : SpecPackageName(S) = D

C2_ReferencedDepKept ==
    \A i \in DOMAIN manifest.dependencies :
        Referenced(manifest.dependencies[i]) =>
            /\ manifest.dependencies[i] \notin Range(uninstalled)
            /\ mpc \in {"cleaning", "done"} => deps[i].used

(* ------------------------------------------------------------------ *)
\* C3: a file below a directory named node_modules or dist (at any depth)
\* is never read and adds nothing to the used-package set; a directory of
\* any other name that the scan comes to is listed, so that after a
\* completed scan every directory outside the excluded ones was entered.
C3_ExcludedDirectories ==
    /\ \A f \in Range(readLog) : ~UnderExcluded(f)
    /\ \A d \in listed \ {0} : ~IsExcludedName(tree[d].name) /\ ~UnderExcluded(d)
    /\ imports \subseteq
         UNION {AddImports({}, tree[f].code) :
                    f \in {g \in Files : ~UnderExcluded(g) /\ tree[g].code.ok}}
    /\ spc = "returned" =>
         \A d \in Dirs :
            (~IsExcludedName(tree[d].name) /\ ~UnderExcluded(d)) => d \in listed

C3_Witness ==
    /\ spc = "returned"
    /\ \E f \in Files, d \in listed \ {0} :
         /\ HasSourceExt(tree[f].name)
         /\ tree[f].code.ok
         /\ listImports(tree[f].code) # {}
         /\ tree[f].parent # 0
         /\ tree[f].parent # d
         /\ d \in AncestorsOf(tree, f)
         /\ IsExcludedName(tree[tree[f].parent].name)
         /\ f \notin Range(readLog)

(* ------------------------------------------------------------------ *)
\* C4: when the parsed text contains an import declaration with the
\* literal specifier X, for any string X, the extractor's result has X.
C4_ImportSpecifierFound ==
    xpc = "returned" =>
        \A n \in AllNodes(source.ast) :
            (/\ n.type = "ImportDeclaration"
             /\ n.source # << >>
             /\ n.source[1].type = "Literal"
             /\ n.source[1].value.t = "string")
            => n.source[1].value.s \in found

(* ------------------------------------------------------------------ *)
\* C5: a call expression anywhere in the tree contributes the value of
\* its first argument exactly when its callee is the identifier `require`
\* and its first argument is a string literal; other calls contribute
\* nothing, and the extraction of a parsed text does not fail.
IsRequireOfLiteral(n) ==
    /\ n.type = "CallExpression"
    /\ n.callee # << >>
    /\ n.callee[1].type = "Identifier"
    /\ n.callee[1].name = "require"
    /\ n.arguments # << >>
    /\ n.arguments[1].type = "Literal"
    /\ n.arguments[1].value.t = "string"

ImportSources(ast) ==
    {n.source[1].value.s : n \in {m \in AllNodes(ast) :
                                    m.type = "ImportDeclaration" /\ m.source # << >>}}

C5_RequireCalls ==
    /\ source.ok => xpc # "threw"
    /\ xpc = "returned" =>
         /\ \A n \in AllNodes(source.ast) :
               IsRequireOfLiteral(n) => n.arguments[1].value.s \in found
         /\ found \ ImportSources(source.ast) \subseteq
               {n.arguments[1].value.s :
                    n \in {m \in AllNodes(source.ast) : IsRequireOfLiteral(m)}}

C5_Witness ==
    /\ xpc = "returned"
    /\ \E n, m, k \in AllNodes(source.ast) :
         /\ IsRequireOfLiteral(n)
         /\ IsRequireOfLiteral(m)
         /\ m # n
         /\ m \in AllNodes(n) 
         /\ m.arguments[1].value.s # n.arguments[1].value.s
         /\ k.type = "CallExpression"
         /\ ~IsRequireOfLiteral(k)
         /\ k.arguments # << >>

(* ------------------------------------------------------------------ *)
\* C6: the used-package set never holds a name that comes from a relative
\* specifier: never ".", ".." or the empty string.
C6_NoRelativeNames ==
    imports \cap {sDot, sDotDot, sEmpty} = {}

(* ------------------------------------------------------------------ *)
\* C7: a file that fails to parse aborts the scan at that file: it is the
\* last file read, the caller receives no set, and a scan that returns
\* has met no such file.
C7_ParseErrorAborts ==
    /\ \A i \in DOMAIN readLog :
          ~tree[readLog[i]].code.ok =>
             /\ i = Len(readLog)
             /\ spc = "threw"
             /\ stack = << >>
             /\ ~usedDeps.got
    /\ spc = "returned" => \A f \in ScannedFiles : tree[f].code.ok
    /\ usedDeps.got => spc = "returned"

C7_Witness ==
    /\ spc = "threw"
    /\ Len(readLog) >= 2
    /\ ~tree[readLog[Len(readLog)]].code.ok
    /\ imports # {}
    /\ ~usedDeps.got
    /\ \E f \in ScannedFiles : f \notin Range(readLog)

(* ------------------------------------------------------------------ *)
\* C8: a file is read exactly when its name ends with .ts or .js: every
\* file read has such a name, a completed scan has read every such file
\* outside the excluded directories, and the set holds only names that
\* come from such files.
C8_SourceExtensions ==
    /\ \A f \in Range(readLog) : ~tree[f].isDir /\ HasSourceExt(tree[f].name)
    /\ spc = "returned" => Range(readLog) = ScannedFiles
    /\ spc \in {"scanning", "returned"} =>
         imports = UNION {AddImports({}, tree[f].code) : f \in Range(readLog)}

C8_Witness ==
    /\ spc = "returned"
    /\ \E f, g \in Files :
         /\ endsWith(tree[f].name, xTsx)
         /\ tree[f].parent = tree[g].parent
         /\ g \in Range(readLog)
         /\ f \notin Range(readLog)
         /\ ~(AddImports({}, tree[f].code) \subseteq imports)

(* ------------------------------------------------------------------ *)
\* C9: a second scan of the same tree ends as the first did and, when it
\* returns, returns the same set, whatever the enumeration orders were;
\* no step of a scan changes the tree.
C9_Idempotent ==
    /\ [](first.spc # "idle" /\ spc \in {"returned", "threw"} =>
            /\ spc = first.spc
            /\ spc = "returned" => usedDeps.set = first.set)
    /\ [][tree' = tree /\ srcExists' = srcExists]_vars

C9_Witness ==
    /\ first.spc = "returned"
    /\ spc = "returned"
    /\ Len(readLog) >= 2
    /\ \E i, j \in DOMAIN readLog : i < j /\ readLog[i] > readLog[j]
    /\ Cardinality(usedDeps.set) >= 2

(* ------------------------------------------------------------------ *)
\* C10: `npm uninstall` is executed only after the manifest was read and
\* the scan returned having read every source file outside the excluded
\* directories; a run whose scan aborts uninstalls nothing.
C10_NoUninstallBeforeScan ==
    /\ uninstalled # << >> =>
          /\ manifest.exists
          /\ spc = "returned"
          /\ usedDeps.got
          /\ ScannedFiles \subseteq Range(readLog)
    /\ (spc = "threw" \/ ~manifest.exists) => uninstalled = << >> /\ pending = << >>

C10_Witness ==
    /\ mpc = "rejected"
    /\ spc = "threw"
    /\ argv.clean
    /\ manifest.dependencies # << >>
    /\ readLog # << >>
    /\ imports # {}
    /\ uninstalled = << >>

====
